---- MODULE Spec2Model ----
(***************************************************************************)
(* A model of resume_parser.py: the run of main (a Streamlit script) and   *)
(* the response-normalisation functions parse_gemini_response,             *)
(* extract_value and extract_list.                                         *)
(*                                                                         *)
(* A Python str is a sequence of one-character strings.  A Python value is *)
(* a record [t |-> type name, v |-> payload]: int (an integer), str (a     *)
(* sequence of characters), list (a sequence of values), dict (a sequence  *)
(* of [k, v] entries in insertion order), bool, float (its digits), None.  *)
(***************************************************************************)
EXTENDS Integers, Sequences, FiniteSets, TLC

VARIABLES
    pc,             \* position of the run of main
    parser,         \* initialize_apis: the LlamaParse object exists
    model,          \* initialize_apis: the Gemini model object exists
    uploaded_file,  \* st.file_uploader returned a file
    jd_text,        \* st.text_area: the pasted job description
    temp_file,      \* the file temp_<name> exists on disk
    resume_text,    \* what parse_resume returned
    response_text,  \* response.text of the model call (or the function input)
    analysis,       \* what analyze_resume returned
    via,            \* which branch of parse_gemini_response produced analysis
    shown,          \* what the results display has rendered so far
    ui,             \* the inline st.error / st.warning messages, in order
    api_calls,      \* calls of parser.load_data in this run
    local_calls,    \* calls of pdfminer's extract_text in this run
    model_calls,    \* calls of model.generate_content in this run
    ret             \* result of the last direct call of a pure function

vars == <<pc, parser, model, uploaded_file, jd_text, temp_file, resume_text,
          response_text, analysis, via, shown, ui, api_calls, local_calls,
          model_calls, ret>>

----------------------------------------------------------------------------
(* Characters.  A TLA+ string cannot hold a grave accent, so BT stands for *)
(* that one character.                                                     *)

BT == "bt"
Q == "\""

Digits == {"0", "1", "2", "3", "4", "5", "6", "7", "8", "9"}

DigitVal == [c \in Digits |->
    CASE c = "0" -> 0 [] c = "1" -> 1 [] c = "2" -> 2 [] c = "3" -> 3
      [] c = "4" -> 4 [] c = "5" -> 5 [] c = "6" -> 6 [] c = "7" -> 7
      [] c = "8" -> 8 [] c = "9" -> 9]

\* str.strip() and int() whitespace, and the regex class \s, over the alphabet
PyWhitespace == {" ", "\n", "\t", "\r"}

\* the characters of strip(' "\'')
QuoteChars == {" ", Q, "'"}

\* the complement of the regex class [^,\n}]
ValueStop == {",", "\n", "}"}

----------------------------------------------------------------------------
(* Python values *)

IntV(n) == [t |-> "int", v |-> n]
StrV(s) == [t |-> "str", v |-> s]
ListV(xs) == [t |-> "list", v |-> xs]
DictV(es) == [t |-> "dict", v |-> es]
BoolV(b) == [t |-> "bool", v |-> b]
FloatV(s) == [t |-> "float", v |-> s]
NoneV == [t |-> "None", v |-> <<>>]

----------------------------------------------------------------------------
(* str methods *)

RECURSIVE LStrip(_, _)
LStrip(s, chars) ==
    IF Len(s) > 0 /\ Head(s) \in chars THEN LStrip(Tail(s), chars) ELSE s

RECURSIVE RStrip(_, _)
RStrip(s, chars) ==
    IF Len(s) > 0 /\ s[Len(s)] \in chars
    THEN RStrip(SubSeq(s, 1, Len(s) - 1), chars)
    ELSE s

Strip(s, chars) == RStrip(LStrip(s, chars), chars)

StartsWith(s, prefix) ==
    Len(prefix) <= Len(s) /\ SubSeq(s, 1, Len(prefix)) = prefix

\* s[a:-b], for a, b >= 0 and b > 0
Slice(s, a, b) ==
    IF a + 1 <= Len(s) - b THEN SubSeq(s, a + 1, Len(s) - b) ELSE <<>>

\* text[i:i+len(lit)] == lit, with i counted from 1
MatchAt(text, i, lit) ==
    i + Len(lit) - 1 <= Len(text) /\ SubSeq(text, i, i + Len(lit) - 1) = lit

\* the first index >= i whose character is not in chars (Len + 1 if none)
RECURSIVE SpanIn(_, _, _)
SpanIn(text, i, chars) ==
    IF i <= Len(text) /\ text[i] \in chars THEN SpanIn(text, i + 1, chars) ELSE i

\* the first index >= i whose character is in chars (Len + 1 if none)
RECURSIVE SpanNotIn(_, _, _)
SpanNotIn(text, i, chars) ==
    IF i <= Len(text) /\ text[i] \notin chars
    THEN SpanNotIn(text, i + 1, chars)
    ELSE i

\* s.split(sep) for a one-character sep
RECURSIVE Split(_, _)
Split(s, sep) ==
    LET e == SpanNotIn(s, 1, {sep}) IN
    IF e > Len(s) THEN <<s>>
    ELSE <<SubSeq(s, 1, e - 1)>> \o Split(SubSeq(s, e + 1, Len(s)), sep)

----------------------------------------------------------------------------
(* int(str): optional surrounding whitespace, an optional sign, then       *)
(* digits, single underscores allowed between digits.                      *)

RECURSIVE DigitsValue(_, _)
DigitsValue(s, acc) ==
    IF s = <<>> THEN acc
    ELSE IF Head(s) = "_" THEN DigitsValue(Tail(s), acc)
    ELSE DigitsValue(Tail(s), 10 * acc + DigitVal[Head(s)])

IsIntLiteral(s) ==
    /\ Len(s) > 0
    /\ s[1] \in Digits
    /\ s[Len(s)] \in Digits
    /\ \A i \in 1..Len(s) : s[i] \in Digits \/ s[i] = "_"
    /\ \A i \in 1..(Len(s) - 1) : ~(s[i] = "_" /\ s[i + 1] = "_")

\* [ok |-> the conversion succeeds, v |-> its value]
PyInt(s) ==
    LET w == Strip(s, PyWhitespace)
        signed == Len(w) > 0 /\ w[1] \in {"-", "+"}
        body == IF signed THEN Tail(w) ELSE w
    IN  IF IsIntLiteral(body)
        THEN [ok |-> TRUE,
              v |-> IF signed /\ w[1] = "-"
                    THEN 0 - DigitsValue(body, 0)
                    ELSE DigitsValue(body, 0)]
        ELSE [ok |-> FALSE, v |-> 0]

----------------------------------------------------------------------------
(* The fallback extractors *)

\* the literal part of both regexes: "key":
KeyPattern(key) == <<Q>> \o key \o <<Q, ":">>

\* \s*([^,\n}]+) tried at index j, the end of the literal: \s* is greedy and
\* backs off one character at a time until the group can start; 0 if it cannot
RECURSIVE GroupStart(_, _, _)
GroupStart(text, k, j) ==
    IF k < j THEN 0
    ELSE IF k <= Len(text) /\ text[k] \notin ValueStop THEN k
    ELSE GroupStart(text, k - 1, j)

\* re.search(f'"{key}":\s*([^,\n}}]+)', text) from index i on:
\* [found, group] of the leftmost match
RECURSIVE SearchValue(_, _, _)
SearchValue(text, lit, i) ==
    IF i + Len(lit) - 1 > Len(text) THEN [found |-> FALSE, group |-> <<>>]
    ELSE LET j == i + Len(lit)
             k == GroupStart(text, SpanIn(text, j, PyWhitespace), j)
         IN  IF MatchAt(text, i, lit) /\ k # 0
             THEN [found |-> TRUE,
                   group |-> SubSeq(text, k, SpanNotIn(text, k, ValueStop) - 1)]
             ELSE SearchValue(text, lit, i + 1)

\* type_func() with no argument
TypeDefault(type_func) == IF type_func = "int" THEN IntV(0) ELSE StrV(<<>>)

\* Convert without the try: the exception of int() reaches the caller
ConvertUnguarded(s, type_func) ==
    IF type_func = "int"
    THEN IF PyInt(s).ok THEN IntV(PyInt(s).v) ELSE NoneV
    ELSE StrV(s)

\* type_func(s), or type_func() when the conversion raises
Convert(s, type_func) ==
    IF type_func = "int"
    THEN IF PyInt(s).ok THEN IntV(PyInt(s).v) ELSE TypeDefault(type_func)
    ELSE StrV(s)

extract_value(text, key, type_func) ==
    LET match == SearchValue(text, KeyPattern(key), 1) IN
    IF match.found
    THEN Convert(Strip(match.group, QuoteChars), type_func)
    ELSE TypeDefault(type_func)

\* re.search(f'"{key}":\s*\[([^\]]+)\]', text) from index i on
RECURSIVE SearchList(_, _, _)
SearchList(text, lit, i) ==
    IF i + Len(lit) - 1 > Len(text) THEN [found |-> FALSE, group |-> <<>>]
    ELSE LET w == SpanIn(text, i + Len(lit), PyWhitespace)
             e == SpanNotIn(text, w + 1, {"]"})
         IN  IF /\ MatchAt(text, i, lit)
                /\ w <= Len(text) /\ text[w] = "["
                /\ e > w + 1 /\ e <= Len(text)
             THEN [found |-> TRUE, group |-> SubSeq(text, w + 1, e - 1)]
             ELSE SearchList(text, lit, i + 1)

\* [item.strip(' "\'') for item in items if item.strip()]
RECURSIVE StripItems(_)
StripItems(items) ==
    IF items = <<>> THEN <<>>
    ELSE IF Strip(Head(items), PyWhitespace) = <<>> THEN StripItems(Tail(items))
    ELSE <<StrV(Strip(Head(items), QuoteChars))>> \o StripItems(Tail(items))

extract_list(text, key) ==
    LET match == SearchList(text, KeyPattern(key), 1) IN
    IF match.found
    THEN ListV(StripItems(Split(match.group, ",")))
    ELSE ListV(<<>>)

----------------------------------------------------------------------------
(* json.loads, as json.decoder and json.scanner compute it.  A scan        *)
(* returns [ok, val, pos]: whether a value was read, the value, and the    *)
(* index after it; ok = FALSE is JSONDecodeError.  The texts of the model  *)
(* hold no backslash, so the escape branch of a string is not modelled.    *)

JsonWhitespace == {" ", "\t", "\n", "\r"}

\* characters that end or break a string: the quote, the escape, controls
StringStop == {Q, "\\", "\n", "\t", "\r"}

Fail == [ok |-> FALSE, val |-> NoneV, pos |-> 0]

Got(val, pos) == [ok |-> TRUE, val |-> val, pos |-> pos]

CharAt(text, i) == IF i >= 1 /\ i <= Len(text) THEN text[i] ELSE "EOF"

\* py_scanstring, text[i] being the opening quote
ScanString(text, i) ==
    LET e == SpanNotIn(text, i + 1, StringStop) IN
    IF CharAt(text, e) = Q
    THEN Got(StrV(SubSeq(text, i + 1, e - 1)), e + 1)
    ELSE Fail

\* NUMBER_RE = (-?(?:0|[1-9]\d*))(\.\d+)?([eE][-+]?\d+)? matched at i
ScanNumber(text, i) ==
    LET s == IF CharAt(text, i) = "-" THEN i + 1 ELSE i
        intEnd == IF CharAt(text, s) = "0" THEN s + 1
                  ELSE IF CharAt(text, s) \in Digits THEN SpanIn(text, s, Digits)
                  ELSE 0
        fracEnd == IF CharAt(text, intEnd) = "." /\ CharAt(text, intEnd + 1) \in Digits
                   THEN SpanIn(text, intEnd + 1, Digits)
                   ELSE intEnd
        expDigits == IF CharAt(text, fracEnd) \in {"e", "E"}
                     THEN IF CharAt(text, fracEnd + 1) \in {"-", "+"}
                          THEN fracEnd + 2 ELSE fracEnd + 1
                     ELSE 0
        expEnd == IF expDigits # 0 /\ CharAt(text, expDigits) \in Digits
                  THEN SpanIn(text, expDigits, Digits)
                  ELSE fracEnd
    IN  IF intEnd = 0 THEN Fail
        ELSE IF expEnd = intEnd
        THEN Got(IntV(IF s = i THEN DigitsValue(SubSeq(text, s, intEnd - 1), 0)
                      ELSE 0 - DigitsValue(SubSeq(text, s, intEnd - 1), 0)),
                 intEnd)
        ELSE Got(FloatV(SubSeq(text, i, expEnd - 1)), expEnd)

\* dict[key] = value: a repeated key keeps its place and takes the new value
DictSet(es, key, val) ==
    IF \E n \in 1..Len(es) : es[n].k = key
    THEN [n \in 1..Len(es) |->
            IF es[n].k = key THEN [k |-> key, v |-> val] ELSE es[n]]
    ELSE Append(es, [k |-> key, v |-> val])

Infinity == <<"I", "n", "f", "i", "n", "i", "t", "y">>

RECURSIVE ScanOnce(_, _)
RECURSIVE ArrayItems(_, _, _)
RECURSIVE ObjectPairs(_, _, _)

\* JSONArray's loop: i is the index of the next value, acc the values so far
ArrayItems(text, i, acc) ==
    LET item == ScanOnce(text, i)
        j == SpanIn(text, item.pos, JsonWhitespace)
    IN  IF ~item.ok THEN Fail
        ELSE IF CharAt(text, j) = "]" THEN Got(ListV(Append(acc, item.val)), j + 1)
        ELSE IF CharAt(text, j) = ","
        THEN ArrayItems(text, SpanIn(text, j + 1, JsonWhitespace),
                        Append(acc, item.val))
        ELSE Fail

\* JSONObject's loop: text[i] is the opening quote of the next key
ObjectPairs(text, i, acc) ==
    LET key == ScanString(text, i)
        c == SpanIn(text, key.pos, JsonWhitespace)
        item == ScanOnce(text, SpanIn(text, c + 1, JsonWhitespace))
        j == SpanIn(text, item.pos, JsonWhitespace)
        n == SpanIn(text, j + 1, JsonWhitespace)
    IN  IF CharAt(text, i) # Q \/ ~key.ok THEN Fail
        ELSE IF CharAt(text, c) # ":" THEN Fail
        ELSE IF ~item.ok THEN Fail
        ELSE IF CharAt(text, j) = "}"
        THEN Got(DictV(DictSet(acc, key.val.v, item.val)), j + 1)
        ELSE IF CharAt(text, j) = ","
        THEN ObjectPairs(text, n, DictSet(acc, key.val.v, item.val))
        ELSE Fail

\* json.scanner.py_make_scanner's _scan_once at index i
ScanOnce(text, i) ==
    LET c == CharAt(text, i)
        j == SpanIn(text, i + 1, JsonWhitespace)
    IN  IF c = Q THEN ScanString(text, i)
        ELSE IF c = "{"
        THEN IF CharAt(text, j) = "}" THEN Got(DictV(<<>>), j + 1)
             ELSE ObjectPairs(text, j, <<>>)
        ELSE IF c = "["
        THEN IF CharAt(text, j) = "]" THEN Got(ListV(<<>>), j + 1)
             ELSE ArrayItems(text, j, <<>>)
        ELSE IF MatchAt(text, i, <<"n", "u", "l", "l">>) THEN Got(NoneV, i + 4)
        ELSE IF MatchAt(text, i, <<"t", "r", "u", "e">>) THEN Got(BoolV(TRUE), i + 4)
        ELSE IF MatchAt(text, i, <<"f", "a", "l", "s", "e">>)
        THEN Got(BoolV(FALSE), i + 5)
        ELSE IF ScanNumber(text, i).ok THEN ScanNumber(text, i)
        ELSE IF MatchAt(text, i, <<"N", "a", "N">>)
        THEN Got(FloatV(<<"N", "a", "N">>), i + 3)
        ELSE IF MatchAt(text, i, Infinity) THEN Got(FloatV(Infinity), i + 8)
        ELSE IF MatchAt(text, i, <<"-">> \o Infinity)
        THEN Got(FloatV(<<"-">> \o Infinity), i + 9)
        ELSE Fail

\* json.loads(s): one value, whitespace around it, nothing after it
json_loads(s) ==
    LET r == ScanOnce(s, SpanIn(s, 1, JsonWhitespace)) IN
    IF r.ok /\ SpanIn(s, r.pos, JsonWhitespace) = Len(s) + 1 THEN r ELSE Fail

----------------------------------------------------------------------------
(* parse_gemini_response *)

match_score == <<"m", "a", "t", "c", "h", "_", "s", "c", "o", "r", "e">>
matching_skills ==
    <<"m", "a", "t", "c", "h", "i", "n", "g", "_", "s", "k", "i", "l", "l", "s">>
missing_skills ==
    <<"m", "i", "s", "s", "i", "n", "g", "_", "s", "k", "i", "l", "l", "s">>
experience == <<"e", "x", "p", "e", "r", "i", "e", "n", "c", "e">>
suggestions == <<"s", "u", "g", "g", "e", "s", "t", "i", "o", "n", "s">>
summary == <<"s", "u", "m", "m", "a", "r", "y">>

Fence == <<BT, BT, BT>>
JsonFence == Fence \o <<"j", "s", "o", "n">>

\* clean_text[7:-3] and clean_text[3:-3]
JsonFenceSkip == 7
FenceSkip == 3
FenceTail == 3

\* lines 94-100: the text handed to json.loads
CleanText(text) ==
    LET clean_text == Strip(text, PyWhitespace) IN
    IF StartsWith(clean_text, JsonFence)
    THEN Strip(Slice(clean_text, JsonFenceSkip, FenceTail), PyWhitespace)
    ELSE IF StartsWith(clean_text, Fence)
    THEN Strip(Slice(clean_text, FenceSkip, FenceTail), PyWhitespace)
    ELSE clean_text

\* lines 106-113: the dict built from the extractors
RegexFallback(text) ==
    DictV(<<[k |-> match_score, v |-> extract_value(text, match_score, "int")],
            [k |-> matching_skills, v |-> extract_list(text, matching_skills)],
            [k |-> missing_skills, v |-> extract_list(text, missing_skills)],
            [k |-> experience, v |-> extract_value(text, experience, "int")],
            [k |-> suggestions, v |-> extract_list(text, suggestions)],
            [k |-> summary, v |-> extract_value(text, summary, "str")]>>)

\* FallbackInput handing over the cleaned text instead of the response
FallbackInputCleaned(text) == CleanText(text)

\* the text the except branch hands to the extractors
FallbackInput(text) == text

\* [via |-> the branch that returned, val |-> the value returned]
parse_gemini_response(text) ==
    LET r == json_loads(CleanText(text)) IN
    IF r.ok THEN [via |-> "json", val |-> r.val]
    ELSE [via |-> "regex", val |-> RegexFallback(FallbackInput(text))]

----------------------------------------------------------------------------
(* The response texts the model draws: a body, which is a JSON object of   *)
(* up to MaxFields fields or a JSON value that is not an object, inside a  *)
(* wrapper, which is nothing, whitespace, a closed or unclosed markdown    *)
(* fence, or a line of chatter before the object.                          *)

MaxFields == 2

Quoted(s) == <<Q>> \o s \o <<Q>>

FieldText(key, value) == KeyPattern(key) \o <<" ">> \o value

Fields ==
    << FieldText(match_score, <<"7", "5">>),
       FieldText(match_score, <<"1", "5", "0">>),
       FieldText(match_score, Quoted(<<"7", ",", "5">>)),
       FieldText(match_score, Quoted(<<"h", "i", "g", "h">>)),
       FieldText(summary, Quoted(<<"a", ",", " ", "b">>)),
       FieldText(summary, Quoted(<<"a", "}", "b">>)),
       FieldText(matching_skills, <<"[", Q, "x", Q, ",", " ", Q, "y", Q, "]">>),
       FieldText(matching_skills, <<"[", "]">>),
       FieldText(missing_skills, <<"[", "'", "y", "'", "]">>),
       FieldText(suggestions, <<"5">>),
       FieldText(experience, <<"2">>) >>

RECURSIVE JoinFields(_)
JoinFields(ix) ==
    IF ix = <<>> THEN <<>>
    ELSE IF Len(ix) = 1 THEN Fields[ix[1]]
    ELSE Fields[ix[1]] \o <<",", " ">> \o JoinFields(Tail(ix))

ObjectText(ix) == <<"{">> \o JoinFields(ix) \o <<"}">>

ObjectBodies ==
    {ObjectText(ix) : ix \in UNION {[1..n -> 1..Len(Fields)] : n \in 0..MaxFields}}

OtherBodies == {<<"[", "1", "]">>, <<"7">>, Quoted(<<"o", "k">>)}

ClosedFences ==
    { <<JsonFence \o <<"\n">>, <<"\n">> \o Fence>>,
      <<JsonFence, Fence>>,
      <<Fence \o <<"\n">>, <<"\n">> \o Fence>>,
      <<<<" ">> \o JsonFence \o <<"\n">>, <<"\n">> \o Fence \o <<" ", "\n">>>> }

UnclosedFences ==
    { <<JsonFence \o <<"\n">>, <<>>>>,
      <<JsonFence \o <<"\n">>, <<".", ".", ".">>>>,
      <<Fence \o <<"\n">>, <<>>>> }

Wrappers ==
    { <<<<>>, <<>>>>,
      <<<<" ">>, <<"\n">>>>,
      <<<<"O", "K", ":", " ">>, <<>>>> }
    \cup ClosedFences \cup UnclosedFences

Wrap(w, body) == w[1] \o body \o w[2]

ResponseTexts == {Wrap(w, b) : w \in Wrappers, b \in ObjectBodies \cup OtherBodies}

----------------------------------------------------------------------------
(* parse_resume: the environment decides how the two extractions end.      *)

ApiOutcomes == {"raises", "no_document", "empty_text", "text"}
LocalOutcomes == {"raises", "empty_text", "text"}

WarnLlamaParse == "LlamaParse failed. Using PDFMiner fallback."
ErrPdfParsing == "PDF parsing failed"
ErrLlamaInit == "LlamaParse initialization failed"
ErrGeminiInit == "Gemini initialization failed"
ErrParseResume == "Failed to parse resume"
ErrAnalysis == "Analysis failed"

\* lines 45-49: the second try block
local_extract(local) ==
    [text |-> IF local = "text" THEN "local text" ELSE "",
     local_calls |-> 1,
     ui |-> IF local = "raises" THEN <<ErrPdfParsing>> ELSE <<>>]

\* [text |-> the str returned, api_calls, local_calls |-> the calls made,
\*  ui |-> the messages emitted]
parse_resume(has_parser, api, local) ==
    IF has_parser /\ api \in {"empty_text", "text"}
    THEN [text |-> IF api = "text" THEN "api text" ELSE "",
          api_calls |-> 1, local_calls |-> 0, ui |-> <<>>]
    ELSE [text |-> local_extract(local).text,
          api_calls |-> IF has_parser THEN 1 ELSE 0,
          local_calls |-> local_extract(local).local_calls,
          ui |-> (IF has_parser THEN <<WarnLlamaParse>> ELSE <<>>)
                 \o local_extract(local).ui]

----------------------------------------------------------------------------
(* The results display of main, lines 171-198 *)

\* float(s) == 0.0
IsZeroFloat(s) ==
    LET m == SubSeq(s, 1, SpanNotIn(s, 1, {"e", "E"}) - 1) IN
    /\ \E i \in 1..Len(m) : m[i] \in Digits
    /\ \A i \in 1..Len(m) : m[i] \in Digits => m[i] = "0"

\* bool(val)
Truthy(val) ==
    CASE val.t = "None" -> FALSE
      [] val.t = "bool" -> val.v
      [] val.t = "int" -> val.v # 0
      [] val.t = "float" -> ~IsZeroFloat(val.v)
      [] OTHER -> Len(val.v) > 0

\* d.get(key, default)
DictGet(d, key, default) ==
    IF \E n \in 1..Len(d.v) : d.v[n].k = key
    THEN d.v[CHOOSE n \in 1..Len(d.v) : d.v[n].k = key].v
    ELSE default

\* a for loop over val does not raise TypeError
Iterable(val) == val.t \in {"list", "str", "dict"}

\* the display raises: .get on a value that is no dict, or a loop over a
\* value that cannot be iterated
DisplayRaises(a) ==
    /\ Truthy(a)
    /\ \/ a.t # "dict"
       \/ \E key \in {matching_skills, missing_skills, suggestions} :
            ~Iterable(DictGet(a, key, ListV(<<>>)))

NothingShown == [metric |-> NoneV, complete |-> FALSE]

\* what the display has rendered when it ends or raises
Display(a) ==
    IF ~Truthy(a) \/ a.t # "dict" THEN NothingShown
    ELSE [metric |-> DictGet(a, match_score, IntV(0)),
          complete |-> ~DisplayRaises(a)]

----------------------------------------------------------------------------
(* The run of main *)

NoCall == [fn |-> "none", key |-> <<>>, type |-> "none", val |-> NoneV]

Init ==
    /\ pc = "start"
    /\ parser = FALSE
    /\ model = FALSE
    /\ uploaded_file = FALSE
    /\ jd_text = ""
    /\ temp_file = FALSE
    /\ resume_text = ""
    /\ response_text = <<>>
    /\ analysis = NoneV
    /\ via = "unset"
    /\ shown = NothingShown
    /\ ui = <<>>
    /\ api_calls = 0
    /\ local_calls = 0
    /\ model_calls = 0
    /\ ret = NoCall

\* lines 14-33 and 141
InitializeApis ==
    /\ pc = "start"
    /\ \E p \in BOOLEAN, m \in BOOLEAN :
        /\ parser' = p
        /\ model' = m
        /\ ui' = ui \o (IF p THEN <<>> ELSE <<ErrLlamaInit>>)
                    \o (IF m THEN <<>> ELSE <<ErrGeminiInit>>)
    /\ pc' = "initialized"
    /\ UNCHANGED <<uploaded_file, jd_text, temp_file, resume_text, response_text,
                   analysis, via, shown, api_calls, local_calls, model_calls, ret>>

\* lines 142-143: st.stop() ends the script
StopWithoutModel ==
    /\ pc = "initialized"
    /\ ~model
    /\ pc' = "stopped"
    /\ UNCHANGED <<parser, model, uploaded_file, jd_text, temp_file, resume_text,
                   response_text, analysis, via, shown, ui, api_calls,
                   local_calls, model_calls, ret>>

\* AfterForm without the test of the job description
AfterFormFileOnly(file, jd) == IF file THEN "save" ELSE "done"

\* the position after the form, line 152
AfterForm(file, jd) == IF file /\ jd # "" THEN "save" ELSE "done"

\* lines 146-152: the widgets return what the user has entered so far
RenderForm ==
    /\ pc = "initialized"
    /\ model
    /\ \E file \in BOOLEAN, jd \in {"", "jd"} :
        /\ uploaded_file' = file
        /\ jd_text' = jd
        /\ pc' = AfterForm(file, jd)
    /\ UNCHANGED <<parser, model, temp_file, resume_text, response_text, analysis,
                   via, shown, ui, api_calls, local_calls, model_calls, ret>>

\* lines 154-156
SaveTempFile ==
    /\ pc = "save"
    /\ temp_file' = TRUE
    /\ pc' = "parse"
    /\ UNCHANGED <<parser, model, uploaded_file, jd_text, resume_text,
                   response_text, analysis, via, shown, ui, api_calls,
                   local_calls, model_calls, ret>>

\* lines 159-164
ParseResume ==
    /\ pc = "parse"
    /\ \E api \in ApiOutcomes, local \in LocalOutcomes :
        LET r == parse_resume(parser, api, local) IN
        /\ resume_text' = r.text
        /\ api_calls' = api_calls + r.api_calls
        /\ local_calls' = local_calls + r.local_calls
        /\ IF r.text = ""
           THEN /\ ui' = ui \o r.ui \o <<ErrParseResume>>
                /\ temp_file' = FALSE
                /\ pc' = "done"
           ELSE /\ ui' = ui \o r.ui
                /\ temp_file' = temp_file
                /\ pc' = "analyze"
    /\ UNCHANGED <<parser, model, uploaded_file, jd_text, response_text, analysis,
                   via, shown, model_calls, ret>>

\* AfterAnalyze calling the model again after a failed call
AfterAnalyzeRetry(raised) == IF raised THEN "analyze" ELSE "display"

\* the position after analyze_resume returns, line 168
AfterAnalyze(raised) == "display"

\* lines 167-168 with 82-87: the call raises, or returns a response text
AnalyzeResume ==
    /\ pc = "analyze"
    /\ model_calls' = model_calls + 1
    /\ \/ /\ analysis' = NoneV
          /\ via' = "raised"
          /\ ui' = Append(ui, ErrAnalysis)
          /\ response_text' = response_text
          /\ pc' = AfterAnalyze(TRUE)
       \/ \E text \in ResponseTexts :
          /\ response_text' = text
          /\ analysis' = parse_gemini_response(text).val
          /\ via' = parse_gemini_response(text).via
          /\ ui' = ui
          /\ pc' = AfterAnalyze(FALSE)
    /\ UNCHANGED <<parser, model, uploaded_file, jd_text, temp_file, resume_text,
                   shown, api_calls, local_calls, ret>>

\* lines 171-198: an exception of the display leaves main
DisplayResults ==
    /\ pc = "display"
    /\ shown' = Display(analysis)
    /\ pc' = IF DisplayRaises(analysis) THEN "crashed" ELSE "cleanup"
    /\ UNCHANGED <<parser, model, uploaded_file, jd_text, temp_file, resume_text,
                   response_text, analysis, via, ui, api_calls, local_calls,
                   model_calls, ret>>

\* line 201
CleanUp ==
    /\ pc = "cleanup"
    /\ temp_file' = FALSE
    /\ pc' = "done"
    /\ UNCHANGED <<parser, model, uploaded_file, jd_text, resume_text,
                   response_text, analysis, via, shown, ui, api_calls,
                   local_calls, model_calls, ret>>

Next ==
    \/ InitializeApis
    \/ StopWithoutModel
    \/ RenderForm
    \/ SaveTempFile
    \/ ParseResume
    \/ AnalyzeResume
    \/ DisplayResults
    \/ CleanUp

Spec == Init /\ [][Next]_vars

\* the run of main has ended: it returned, st.stop() ended it, or it raised
Ended == pc \in {"done", "stopped", "crashed"}

----------------------------------------------------------------------------
(* Direct calls of the pure functions on every response text *)

ValueKeys == {<<match_score, "int">>, <<experience, "int">>, <<summary, "str">>}
ListKeys == {matching_skills, missing_skills, suggestions}

FnInit ==
    /\ pc = "call"
    /\ response_text \in ResponseTexts
    /\ parser = FALSE
    /\ model = FALSE
    /\ uploaded_file = FALSE
    /\ jd_text = ""
    /\ temp_file = FALSE
    /\ resume_text = ""
    /\ analysis = NoneV
    /\ via = "unset"
    /\ shown = NothingShown
    /\ ui = <<>>
    /\ api_calls = 0
    /\ local_calls = 0
    /\ model_calls = 0
    /\ ret = NoCall

CallExtractValue ==
    /\ pc = "call"
    /\ \E kt \in ValueKeys :
        ret' = [fn |-> "extract_value", key |-> kt[1], type |-> kt[2],
                val |-> extract_value(response_text, kt[1], kt[2])]
    /\ pc' = "returned"
    /\ UNCHANGED <<parser, model, uploaded_file, jd_text, temp_file, resume_text,
                   response_text, analysis, via, shown, ui, api_calls,
                   local_calls, model_calls>>

CallExtractList ==
    /\ pc = "call"
    /\ \E key \in ListKeys :
        ret' = [fn |-> "extract_list", key |-> key, type |-> "list",
                val |-> extract_list(response_text, key)]
    /\ pc' = "returned"
    /\ UNCHANGED <<parser, model, uploaded_file, jd_text, temp_file, resume_text,
                   response_text, analysis, via, shown, ui, api_calls,
                   local_calls, model_calls>>

CallParseGeminiResponse ==
    /\ pc = "call"
    /\ ret' = [fn |-> "parse_gemini_response", key |-> <<>>, type |-> "dict",
               val |-> parse_gemini_response(response_text).val]
    /\ via' = parse_gemini_response(response_text).via
    /\ pc' = "returned"
    /\ UNCHANGED <<parser, model, uploaded_file, jd_text, temp_file, resume_text,
                   response_text, analysis, shown, ui, api_calls, local_calls,
                   model_calls>>

FnNext ==
    \/ CallExtractValue
    \/ CallExtractList
    \/ CallParseGeminiResponse

SpecFn == FnInit /\ [][FnNext]_vars

----------------------------------------------------------------------------
(* Vocabulary of the properties *)

InUi(msg) == \E n \in 1..Len(ui) : ui[n] = msg

\* parse_resume has returned in this run
Parsed ==
    \/ pc \in {"analyze", "display", "cleanup", "crashed"}
    \/ pc = "done" /\ uploaded_file /\ jd_text # ""

\* analyze_resume received a response text from the model
Answered == via \in {"json", "regex"} /\ model_calls > 0

\* the text contains "key":
KeyOccurs(text, key) ==
    \E i \in 1..Len(text) : MatchAt(text, i, KeyPattern(key))

FirstKey(text, key) ==
    CHOOSE i \in 1..Len(text) :
        /\ MatchAt(text, i, KeyPattern(key))
        /\ \A j \in 1..(i - 1) : ~MatchAt(text, j, KeyPattern(key))

\* the JSON literal written after the first "key": of the text
Written(text, key) ==
    ScanOnce(text, SpanIn(text, FirstKey(text, key) + Len(KeyPattern(key)),
                          JsonWhitespace))

IsStrList(val) ==
    val.t = "list" /\ \A n \in 1..Len(val.v) : val.v[n].t = "str"

ResultKeys ==
    <<match_score, matching_skills, missing_skills, experience, suggestions,
      summary>>

\* a dict of exactly the six keys, each of its field's type
IsResultRecord(a) ==
    /\ a.t = "dict"
    /\ Len(a.v) = 6
    /\ \A n \in 1..6 : a.v[n].k = ResultKeys[n]
    /\ a.v[1].v.t = "int"
    /\ IsStrList(a.v[2].v)
    /\ IsStrList(a.v[3].v)
    /\ a.v[4].v.t = "int"
    /\ IsStrList(a.v[5].v)
    /\ a.v[6].v.t = "str"

OpensWithFence(text) == StartsWith(Strip(text, PyWhitespace), Fence)

ClosesWithFence(text) ==
    LET c == Strip(text, PyWhitespace) IN
    Len(c) >= 6 /\ SubSeq(c, Len(c) - 2, Len(c)) = Fence

\* what is left of a fenced text without its opening fence and its last
\* three characters
Unfenced(text) ==
    LET c == Strip(text, PyWhitespace) IN
    Strip(Slice(c, IF StartsWith(c, JsonFence) THEN 7 ELSE 3, 3), PyWhitespace)

----------------------------------------------------------------------------
(* The properties *)

\* C1: when a run of main ends, however it ends, the temporary file temp_<name>
\* no longer exists.
C1_TempFileDeletedAtEnd == Ended => ~temp_file

\* C2: every failure is turned into a UI message where it occurs, and no
\* exception leaves main, whatever the response text.
C2_NoExceptionLeavesMain ==
    /\ pc # "crashed"
    /\ (pc # "start" /\ ~parser) => InUi(ErrLlamaInit)
    /\ (pc # "start" /\ ~model) => InUi(ErrGeminiInit)
    /\ via = "raised" => InUi(ErrAnalysis)

\* C3: when strict JSON decoding of the response text fails, analyze_resume
\* returns the fallback record: a dict of exactly the six keys, match_score and
\* experience integers, the three lists lists of strings, summary a string.
C3_FallbackRecord ==
    (Answered /\ ~json_loads(CleanText(response_text)).ok)
        => (via = "regex" /\ IsResultRecord(analysis))

\* C3 witness: a response that does not decode, from which the fallback read
\* a score of 75 and defaulted the experience.
C3_Witness ==
    /\ Answered
    /\ ~json_loads(CleanText(response_text)).ok
    /\ pc = "display"
    /\ IsResultRecord(analysis)
    /\ analysis.v[1].v = IntV(75)
    /\ analysis.v[4].v = IntV(0)

\* C4: extract_value and extract_list return the field's default (0, the
\* empty string, the empty list) when the text has no "key":, and extract_value
\* returns 0 for an integer field whose written value is a string that is not
\* an integer literal, or a list.
C4_DefaultsWhenAbsentOrUnconvertible ==
    /\ (ret.fn = "extract_value" /\ ~KeyOccurs(response_text, ret.key))
        => ret.val = (IF ret.type = "int" THEN IntV(0) ELSE StrV(<<>>))
    /\ (ret.fn = "extract_list" /\ ~KeyOccurs(response_text, ret.key))
        => ret.val = ListV(<<>>)
    /\ (/\ ret.fn = "extract_value"
        /\ ret.type = "int"
        /\ KeyOccurs(response_text, ret.key)
        /\ Written(response_text, ret.key).ok
        /\ LET w == Written(response_text, ret.key).val IN
           \/ w.t = "list"
           \/ w.t = "str" /\ ~PyInt(w.v).ok)
        => ret.val = IntV(0)

\* C5: when the first "key": of the text is followed by a JSON literal of the
\* field's type (an integer, a string, a list of strings), the extractor
\* returns the value of that literal.
C5_ExtractsWrittenLiteral ==
    (/\ ret.fn \in {"extract_value", "extract_list"}
     /\ KeyOccurs(response_text, ret.key)
     /\ Written(response_text, ret.key).ok)
        => LET w == Written(response_text, ret.key).val IN
           /\ (ret.type = "int" /\ w.t = "int") => ret.val = w
           /\ (ret.type = "str" /\ w.t = "str") => ret.val = w
           /\ (ret.type = "list" /\ IsStrList(w)) => ret.val = w

\* C6: the match score that main has displayed is an integer from 0 to 100.
C6_DisplayedScoreInRange ==
    shown.metric.t # "None"
        => (/\ shown.metric.t = "int"
            /\ shown.metric.v >= 0
            /\ shown.metric.v <= 100)

\* C7: in one run the model is called at most once and the parsing API at
\* most once, also after a failed call, and an analysis result exists only
\* once the one model call has been made.
C7_AtMostOneCall ==
    /\ model_calls <= 1
    /\ api_calls <= 1
    /\ via # "unset" <=> model_calls = 1
    /\ analysis # NoneV => model_calls = 1

\* C7 witness: a finished run in which the parsing API failed, the local
\* library delivered, and the model call raised.
C7_Witness ==
    /\ pc = "done"
    /\ via = "raised"
    /\ api_calls = 1
    /\ local_calls = 1
    /\ model_calls = 1

\* C8: after parse_resume, the API was called if a parser exists; the local
\* library was not called if the API's text was returned; and whenever the text
\* returned is not the API's text (the API gave none that is usable), the local
\* library was called.
C8_LocalFallbackAttempted ==
    Parsed =>
        /\ parser => api_calls = 1
        /\ resume_text = "api text" => local_calls = 0
        /\ resume_text # "api text" => local_calls = 1

\* C9: the model is called only with a model, an uploaded file, a job
\* description and a parsed text; a run without a model stops before writing
\* the file; a run is stopped only for want of a model, not of a parser; and a
\* run whose parsed text is empty ends with the failure message, the file
\* removed, no model call and nothing displayed.
C9_ModelCallGuarded ==
    /\ model_calls > 0
        => (model /\ uploaded_file /\ jd_text # "" /\ resume_text # "")
    /\ (pc # "start" /\ ~model)
        => (pc \in {"initialized", "stopped"} /\ ~temp_file /\ ~uploaded_file)
    /\ pc = "stopped" => ~model
    /\ (Parsed /\ resume_text = "")
        => (/\ pc = "done"
            /\ InUi(ErrParseResume)
            /\ ~temp_file
            /\ model_calls = 0
            /\ shown = NothingShown)

\* C9 witness: parser initialization failed, the run went on and called the
\* model.
C9_Witness ==
    /\ ~parser
    /\ model
    /\ InUi(ErrLlamaInit)
    /\ model_calls = 1
    /\ resume_text = "local text"
    /\ pc = "done"

\* the first half of C10: a text that is a JSON object yields the same record
\* bare, inside either closed fence, and with whitespace around it
C10_SameRecordFenced ==
    (/\ ret.fn = "parse_gemini_response"
     /\ json_loads(response_text).ok
     /\ json_loads(response_text).val.t = "dict")
        => /\ via = "json"
           /\ \A w \in ClosedFences \cup {<<<<" ", "\n">>, <<"\n", " ">>>>} :
                /\ parse_gemini_response(Wrap(w, response_text)).via = "json"
                /\ parse_gemini_response(Wrap(w, response_text)).val = ret.val

\* C10 as stated: fenced JSON objects yield the record of the bare object, and
\* a response that opens with a fence and has no closing fence goes through
\* the regex fallback, applied to the response text as received.
C10_UnclosedFenceFallsBack ==
    /\ C10_SameRecordFenced
    /\ (/\ ret.fn = "parse_gemini_response"
        /\ OpensWithFence(response_text)
        /\ ~ClosesWithFence(response_text))
        => (via = "regex" /\ ret.val = RegexFallback(response_text))

\* C10 amended: fenced JSON objects yield the record of the bare object; a
\* response that opens with a fence and has no closing fence loses its last
\* three characters with the opening fence, and either what is left decodes
\* and is returned, or the regex fallback is applied to the response text as
\* received.
C10_UnclosedFenceTruncated ==
    /\ C10_SameRecordFenced
    /\ (/\ ret.fn = "parse_gemini_response"
        /\ OpensWithFence(response_text)
        /\ ~ClosesWithFence(response_text))
        => IF json_loads(Unfenced(response_text)).ok
           THEN via = "json" /\ ret.val = json_loads(Unfenced(response_text)).val
           ELSE via = "regex" /\ ret.val = RegexFallback(response_text)

\* C10 witness: a response with an opening fence and no closing fence whose
\* truncation decodes, returned by the JSON branch.
C10_Witness ==
    /\ ret.fn = "parse_gemini_response"
    /\ OpensWithFence(response_text)
    /\ ~ClosesWithFence(response_text)
    /\ via = "json"
    /\ ret.val.t = "dict"
    /\ Len(ret.val.v) = 2

====
